---- MODULE Spec2Model ----
(***************************************************************************)
(* Flight-fare data validation: FlightDataValidator (src/data/validation.py)*)
(* as a state machine.  A caller holds a dataframe snapshot `df`, hands it  *)
(* to validate, and receives a result record.                               *)
(* A second state machine runs the reports of scripts/data_summary.py and   *)
(* notebooks/scripts/data_quality.py on a dataset loaded from a file.       *)
(* A third one runs the file-level functions: download_from_kaggle          *)
(* (src/data/ingestion.py), load_flight_data and validate_raw_data.         *)
(*                                                                          *)
(* Numbers.  Fares are float64 columns.  The model draws fares from         *)
(* integer BDT amounts of small magnitude: on these values every float64    *)
(* sum, difference, product by 10 and product by 0.1 that the code          *)
(* computes is exact or rounds to the exact result where a comparison       *)
(* decides, so integer arithmetic gives the code's comparisons.  A median   *)
(* of an even number of fares is a half-integer: the model carries twice    *)
(* the median.                                                              *)
(*                                                                          *)
(* Cells.  A cell is a record [k, n, s]: k = "null" (NaN / None),           *)
(* k = "num" with the number n, or k = "str" with the text s.               *)
(***************************************************************************)
EXTENDS Integers, Sequences, FiniteSets, TLC

VARIABLES df, arg, outcome, results, prev, summary, quality, verified,
          fs, kaggle, call

\* The variables of the dataframe-level state machines.
frameVars == <<df, arg, outcome, results, prev, summary, quality, verified>>

\* The variables of the file-level state machine.
fileVars == <<fs, kaggle, call>>

vars == <<df, arg, outcome, results, prev, summary, quality, verified, fs, kaggle, call>>

\* The largest number of rows of a snapshot.
MaxRows == 3

----------------------------------------------------------------------------
\* Cells and small helpers

Null == [k |-> "null", n |-> 0, s |-> ""]

Num(i) == [k |-> "num", n |-> i, s |-> ""]

Str(t) == [k |-> "str", n |-> 0, s |-> t]

\* Python's None in a failure record or a missing optional field.
None == <<>>

Some(x) == <<x>>

Range(seq) == {seq[i] : i \in 1..Len(seq)}

RECURSIVE SumSeq(_)
SumSeq(seq) == IF seq = <<>> THEN 0 ELSE Head(seq) + SumSeq(Tail(seq))

RECURSIVE Concat(_)
Concat(seqs) == IF seqs = <<>> THEN <<>> ELSE Head(seqs) \o Concat(Tail(seqs))

Abs(x) == IF x < 0 THEN -x ELSE x

\* The .sum() of a boolean series: the number of its True entries.
CountTrue(series) == Cardinality({i \in DOMAIN series : series[i]})

----------------------------------------------------------------------------
\* The schema (FlightDataValidator._define_schema)

BaseFare == "Base Fare (BDT)"

TaxSurcharge == "Tax & Surcharge (BDT)"

TotalFare == "Total Fare (BDT)"

Duration == "Duration (hrs)"

Departure == "Departure Date & Time"

\* A pandera Check.  `name` is what the failure record carries in its
\* "check" field: the error text when one is given, else the check's repr.
Chk(kind, lo, hi, among, name) ==
    [kind |-> kind, lo |-> lo, hi |-> hi, among |-> among, name |-> name]

Col(dtype, checks, nullable) ==
    [dtype |-> dtype, checks |-> checks, nullable |-> nullable]

\* The declared columns, in declaration order.
DeclaredColumns ==
    << "Airline", "Source", "Source Name", "Destination", "Destination Name",
       Departure, "Arrival Date & Time", "Duration (hrs)", "Stopovers",
       "Aircraft Type", "Class", "Booking Source", BaseFare, TaxSurcharge,
       TotalFare, "Seasonality", "Days Before Departure" >>

\* Column(str) checks dtype object, Column(float) float64, Column(int) int64.
Schema ==
    [c \in Range(DeclaredColumns) |->
        CASE c = "Airline" ->
                Col("object",
                    << Chk("str_length", 3, 100, {}, "str_length(3, 100)"),
                       Chk("notna", 0, 0, {}, "Airline cannot be null") >>, FALSE)
          [] c = "Source" ->
                Col("object",
                    << Chk("str_length", 2, 5, {}, "str_length(2, 5)"),
                       Chk("isupper", 0, 0, {}, "Source should be uppercase") >>, FALSE)
          [] c = "Destination" ->
                Col("object",
                    << Chk("str_length", 2, 5, {}, "str_length(2, 5)"),
                       Chk("isupper", 0, 0, {}, "Destination should be uppercase") >>, FALSE)
          [] c = "Duration (hrs)" ->
                Col("float64",
                    << Chk("greater_than", 0, 0, {}, "greater_than(0)"),
                       Chk("less_than", 0, 50, {}, "Duration too long") >>, FALSE)
          [] c = "Aircraft Type" -> Col("object", <<>>, TRUE)
          [] c = "Class" ->
                Col("object",
                    << Chk("isin", 0, 0, {"Economy", "Business", "First"},
                           "isin(['Economy', 'Business', 'First'])") >>, FALSE)
          [] c = BaseFare ->
                Col("float64",
                    << Chk("greater_than", 0, 0, {}, "Base fare must be positive"),
                       Chk("less_than", 0, 1000000, {}, "less_than(1000000)") >>, FALSE)
          [] c = TaxSurcharge ->
                Col("float64",
                    << Chk("greater_than_or_equal_to", 0, 0, {},
                           "greater_than_or_equal_to(0)"),
                       Chk("less_than", 0, 500000, {}, "less_than(500000)") >>, FALSE)
          [] c = TotalFare ->
                Col("float64",
                    << Chk("greater_than", 0, 0, {}, "Total fare must be positive"),
                       Chk("less_than", 0, 1500000, {}, "less_than(1500000)") >>, FALSE)
          [] c = "Days Before Departure" ->
                Col("int64",
                    << Chk("greater_than_or_equal_to", 0, 0, {},
                           "greater_than_or_equal_to(0)"),
                       Chk("less_than", 0, 365, {}, "less_than(365)") >>, FALSE)
          [] OTHER -> Col("object", <<>>, FALSE)]

----------------------------------------------------------------------------
\* Dataframes.  A dataframe is [columns, dtypes, rows]: the column names in
\* order, each column's dtype, and the rows (functions from column name to
\* cell), in index order; row i of the model has the pandas index i - 1.

Frame(columns, dtypes, rows) ==
    [columns |-> columns, dtypes |-> dtypes, rows |-> rows]

HasColumn(d, c) == c \in Range(d.columns)

NRows(d) == Len(d.rows)

\* pandas isnull on one cell
IsNull(cell) == cell.k = "null"

\* Python's str.isupper on the texts of the model's universe: at least one
\* cased character and no lowercase one.
IsUpper(t) == t \in {"DAC", "CGP", "JFK"}

----------------------------------------------------------------------------
\* The schema check: self.schema.validate(df, lazy=True)

FailureCase(context, column, check, number, case, index) ==
    [schema_context |-> context, column |-> column, check |-> check,
     check_number |-> number, failure_case |-> case, index |-> index]

\* Does the check's predicate hold of a non-null cell?
CheckHolds(chk, cell) ==
    CASE chk.kind = "str_length" -> chk.lo <= Len(cell.s) /\ Len(cell.s) <= chk.hi
      [] chk.kind = "isupper" -> IsUpper(cell.s)
      [] chk.kind = "notna" -> ~IsNull(cell)
      [] chk.kind = "isin" -> cell.k = "str" /\ cell.s \in chk.among
      [] chk.kind = "greater_than" -> cell.n > chk.lo
      [] chk.kind = "greater_than_or_equal_to" -> cell.n >= chk.lo
      [] chk.kind = "less_than" -> cell.n < chk.hi
      [] OTHER -> TRUE

\* Does evaluating the check on the column raise inside pandera?  An order
\* comparison with a text cell is a TypeError, the .str accessor on a column
\* that is not of dtype object an AttributeError.
CheckRaises(d, c, chk) ==
    CASE chk.kind \in {"greater_than", "greater_than_or_equal_to", "less_than"} ->
            \E i \in 1..NRows(d) : d.rows[i][c].k = "str"
      [] chk.kind \in {"str_length", "isupper"} -> d.dtypes[c] # "object"
      [] OTHER -> FALSE

\* An absent column is reported once for every row.
PresenceFailuresPerRow(d) ==
    LET missing == SelectSeq(DeclaredColumns, LAMBDA c : ~HasColumn(d, c))
    IN  Concat([j \in 1..Len(missing) |->
                   [i \in 1..NRows(d) |->
                       FailureCase("DataFrameSchema", None, "column_in_dataframe", None,
                                   Str(missing[j]), Some(i - 1))]])

\* Declared columns absent from the dataframe: one record per column.
PresenceFailures(d) ==
    LET missing == SelectSeq(DeclaredColumns, LAMBDA c : ~HasColumn(d, c))
    IN  [j \in 1..Len(missing) |->
            FailureCase("DataFrameSchema", None, "column_in_dataframe", None,
                        Str(missing[j]), None)]

\* Null cells of a column declared nullable=False: one record per row.
NullFailures(d, c) ==
    IF Schema[c].nullable THEN <<>>
    ELSE LET bad == SelectSeq([i \in 1..NRows(d) |-> i],
                              LAMBDA i : IsNull(d.rows[i][c]))
         IN  [j \in 1..Len(bad) |->
                 FailureCase("Column", Some(c), "not_nullable", None,
                             Null, Some(bad[j] - 1))]

\* The dtype of a column is not looked at.
DtypeFailuresSkipped(d, c) == <<>>

\* The column's dtype differs from the declared one: one record.
DtypeFailures(d, c) ==
    IF d.dtypes[c] = Schema[c].dtype THEN <<>>
    ELSE << FailureCase("Column", Some(c), "dtype('" \o Schema[c].dtype \o "')",
                        None, Str(d.dtypes[c]), None) >>

\* One check of a column: a single check-error record when evaluating it
\* raises, else one record per non-null row failing it (ignore_na=True:
\* null cells pass every check).
OneCheckFailures(d, c, number) ==
    LET chk == Schema[c].checks[number + 1]
    IN  IF CheckRaises(d, c, chk)
        THEN << FailureCase("Column", Some(c), chk.name, Some(number),
                            Str("TypeError"), None) >>
        ELSE LET bad == SelectSeq([i \in 1..NRows(d) |-> i],
                                  LAMBDA i : /\ ~IsNull(d.rows[i][c])
                                             /\ ~CheckHolds(chk, d.rows[i][c]))
             IN  [j \in 1..Len(bad) |->
                     FailureCase("Column", Some(c), chk.name, Some(number),
                                 d.rows[bad[j]][c], Some(bad[j] - 1))]

CheckFailures(d, c) ==
    Concat([j \in 1..Len(Schema[c].checks) |-> OneCheckFailures(d, c, j - 1)])

\* A present column: nullability, then dtype, then each check in
\* declaration order; lazy validation runs all of them.
ColumnFailures(d, c) ==
    NullFailures(d, c) \o DtypeFailures(d, c) \o CheckFailures(d, c)

\* Lazy validation stops at the first failure instead of collecting.
SchemaFailureCasesFailFast(d) ==
    LET present == SelectSeq(DeclaredColumns, LAMBDA c : HasColumn(d, c))
        all == PresenceFailures(d)
               \o Concat([j \in 1..Len(present) |-> ColumnFailures(d, present[j])])
    IN  SubSeq(all, 1, IF all = <<>> THEN 0 ELSE 1)

\* The schema is strict: every undeclared column is a failure.
SchemaFailureCasesStrict(d) ==
    LET present == SelectSeq(DeclaredColumns, LAMBDA c : HasColumn(d, c))
        unknown == SelectSeq(d.columns, LAMBDA c : c \notin Range(DeclaredColumns))
    IN  [j \in 1..Len(unknown) |->
            FailureCase("DataFrameSchema", None, "column_in_schema", None,
                        Str(unknown[j]), None)]
        \o PresenceFailures(d)
        \o Concat([j \in 1..Len(present) |-> ColumnFailures(d, present[j])])

\* e.failure_cases of the SchemaErrors that schema.validate(df, lazy=True)
\* raises, as records; empty when the dataframe passes.  Undeclared columns
\* are not looked at (strict=False).
SchemaFailureCases(d) ==
    LET present == SelectSeq(DeclaredColumns, LAMBDA c : HasColumn(d, c))
    IN  PresenceFailures(d)
        \o Concat([j \in 1..Len(present) |-> ColumnFailures(d, present[j])])

----------------------------------------------------------------------------
\* The business rules (FlightDataValidator._check_business_rules)

KeyColumns == <<"Airline", "Source", "Destination", Departure>>

FareColumns == <<BaseFare, TaxSurcharge, TotalFare>>

HasAll(d, columns) == \A c \in Range(columns) : HasColumn(d, c)

\* The 1 BDT tolerance of the fare-consistency rule.
Tolerance == 1

Warning(rule, message, severity) ==
    [rule |-> rule, message |-> message, severity |-> severity]

\* The tolerance is taken as reached at the bound already.
FareMismatchAtTolerance(row) ==
    /\ \A c \in Range(FareColumns) : row[c].k = "num"
    /\ Abs((row[BaseFare].n + row[TaxSurcharge].n) - row[TotalFare].n) >= Tolerance

\* diff > 1.0 on one row; a NaN difference compares False.
FareMismatch(row) ==
    /\ \A c \in Range(FareColumns) : row[c].k = "num"
    /\ Abs((row[BaseFare].n + row[TaxSurcharge].n) - row[TotalFare].n) > Tolerance

\* mismatches = (diff > 1.0).sum()
Mismatches(d) == CountTrue([i \in 1..NRows(d) |-> FareMismatch(d.rows[i])])

FareRule(d) ==
    IF ~HasAll(d, FareColumns) THEN <<>>
    ELSE LET mismatches == Mismatches(d)
         IN  IF mismatches > 0
             THEN << Warning("Total Fare Calculation",
                             ToString(mismatches) \o " rows have Total Fare != Base Fare + Tax",
                             "warning") >>
             ELSE <<>>

\* Only the row right before is compared.
DuplicatedAdjacent(d, subset, i) ==
    /\ i > 1
    /\ \A c \in subset : d.rows[i - 1][c] = d.rows[i][c]

\* df.duplicated(subset)[i] with keep='first': an earlier row agrees on every
\* column of the subset (NaN equals NaN here).
Duplicated(d, subset, i) ==
    \E j \in 1..(i - 1) : \A c \in subset : d.rows[j][c] = d.rows[i][c]

\* A row with a null in its key is never counted.
KeyDuplicatesDropNa(d) ==
    CountTrue([i \in 1..NRows(d) |->
                  /\ Duplicated(d, Range(KeyColumns), i)
                  /\ \A c \in Range(KeyColumns) : ~IsNull(d.rows[i][c])])

\* duplicates = df.duplicated(subset=duplicate_cols).sum()
KeyDuplicates(d) ==
    CountTrue([i \in 1..NRows(d) |-> Duplicated(d, Range(KeyColumns), i)])

DuplicateRule(d) ==
    IF ~HasAll(d, KeyColumns) THEN <<>>
    ELSE LET duplicates == KeyDuplicates(d)
         IN  IF duplicates > 0
             THEN << Warning("Duplicate Flights",
                             ToString(duplicates) \o " potential duplicate flight records found",
                             "info") >>
             ELSE <<>>

\* The non-null values of the fare column, in row order.
Fares(d) ==
    LET cells == SelectSeq([i \in 1..NRows(d) |-> d.rows[i][TotalFare]],
                           LAMBDA cell : cell.k = "num")
    IN  [j \in 1..Len(cells) |-> cells[j].n]

RECURSIVE Insert(_, _)
Insert(x, sorted) ==
    IF sorted = <<>> THEN <<x>>
    ELSE IF x <= Head(sorted) THEN <<x>> \o sorted
    ELSE <<Head(sorted)>> \o Insert(x, Tail(sorted))

RECURSIVE Sort(_)
Sort(seq) == IF seq = <<>> THEN <<>> ELSE Insert(Head(seq), Sort(Tail(seq)))

\* Twice df[fare].median(): NaNs are skipped; None stands for the NaN median
\* of a column without a value.
Median2(d) ==
    LET sorted == Sort(Fares(d))
        n == Len(sorted)
    IN  IF n = 0 THEN None
        ELSE IF n % 2 = 1 THEN Some(2 * sorted[(n + 1) \div 2])
        ELSE Some(sorted[n \div 2] + sorted[n \div 2 + 1])

\* The bounds themselves count as extreme.
IsOutlierInclusive(cell, median2) ==
    /\ cell.k = "num"
    /\ median2 # None
    /\ \/ 2 * cell.n >= median2[1] * 10
       \/ 2 * cell.n * 10 <= median2[1]

\* fare > median * 10 or fare < median * 0.1, on one cell; any comparison
\* with NaN (the cell or the median) is False.
IsOutlier(cell, median2) ==
    /\ cell.k = "num"
    /\ median2 # None
    /\ \/ 2 * cell.n > median2[1] * 10
       \/ 2 * cell.n * 10 < median2[1]

Outliers(d) ==
    LET median_fare == Median2(d)
    IN  CountTrue([i \in 1..NRows(d) |-> IsOutlier(d.rows[i][TotalFare], median_fare)])

OutlierRule(d) ==
    IF ~HasColumn(d, TotalFare) THEN <<>>
    ELSE LET outliers == Outliers(d)
         IN  IF outliers > 0
             THEN << Warning("Fare Outliers",
                             ToString(outliers) \o " rows with extreme fares (10x or 0.1x median)",
                             "info") >>
             ELSE <<>>

\* The duplicate rule is tried first.
CheckBusinessRulesReordered(d) == DuplicateRule(d) \o FareRule(d) \o OutlierRule(d)

\* The list _check_business_rules returns.
CheckBusinessRules(d) == FareRule(d) \o DuplicateRule(d) \o OutlierRule(d)

\* A text cell in a fare column makes the arithmetic of the rules a
\* TypeError: float - str in the fare rule, the median of texts in the
\* outlier rule.
BusinessRulesRaise(d) ==
    \/ /\ HasAll(d, FareColumns)
       /\ \E i \in 1..NRows(d) : \E c \in Range(FareColumns) : d.rows[i][c].k = "str"
    \/ /\ HasColumn(d, TotalFare)
       /\ \E i \in 1..NRows(d) : d.rows[i][TotalFare].k = "str"

----------------------------------------------------------------------------
\* The statistics (FlightDataValidator._calculate_stats)

\* A quotient num / den kept exact; den = 0 stands for NaN.
Ratio(num, den) == [num |-> num, den |-> den]

Min(seq) == CHOOSE x \in Range(seq) : \A y \in Range(seq) : x <= y

Max(seq) == CHOOSE x \in Range(seq) : \A y \in Range(seq) : x >= y

\* mean, median, min, max and std of the fare column, NaNs skipped.  median
\* is carried doubled; std is carried as its square, the sample variance
\* (divisor n - 1), whose numerator times n is the sum of the squared
\* differences of all pairs; None stands for NaN.
FareStats(d) ==
    LET xs == Fares(d)
        n == Len(xs)
        sum == SumSeq(xs)
        pairs == SumSeq([j \in 1..(n * n) |->
                            LET a == xs[((j - 1) \div n) + 1]
                                b == xs[((j - 1) % n) + 1]
                            IN  IF ((j - 1) \div n) < ((j - 1) % n) THEN (a - b) * (a - b) ELSE 0])
    IN  [mean |-> Ratio(sum, n),
         median |-> Median2(d),
         min |-> IF n = 0 THEN None ELSE Some(Min(xs)),
         max |-> IF n = 0 THEN None ELSE Some(Max(xs)),
         std |-> Ratio(pairs, n * (n - 1))]

\* Only the columns that have a null are listed.
MissingValuesOnlyMissing(d) ==
    [c \in {x \in Range(d.columns) : \E i \in 1..NRows(d) : IsNull(d.rows[i][x])} |->
        CountTrue([i \in 1..NRows(d) |-> IsNull(d.rows[i][c])])]

\* df.isnull().sum().to_dict()
MissingValues(d) ==
    [c \in Range(d.columns) |-> CountTrue([i \in 1..NRows(d) |-> IsNull(d.rows[i][c])])]

\* keep=False: every row of a group of equal rows counts.
DuplicateRowsKeepFalse(d) ==
    CountTrue([i \in 1..NRows(d) |->
                  \E j \in 1..NRows(d) : j # i /\ d.rows[j] = d.rows[i]])

\* df.duplicated().sum()
DuplicateRows(d) ==
    CountTrue([i \in 1..NRows(d) |-> Duplicated(d, Range(d.columns), i)])

\* fare_stats is always set: zeros when the fare column is absent.
CalculateStatsZeroStub(d) ==
    [total_rows |-> NRows(d),
     total_columns |-> Len(d.columns),
     missing_values |-> MissingValues(d),
     duplicate_rows |-> DuplicateRows(d),
     fare_stats |-> IF HasColumn(d, TotalFare) THEN Some(FareStats(d))
                    ELSE Some([mean |-> Ratio(0, 1), median |-> Some(0), min |-> Some(0),
                               max |-> Some(0), std |-> Ratio(0, 1)])]

\* The stats dictionary; fare_stats is None when the key is not set.
CalculateStats(d) ==
    [total_rows |-> NRows(d),
     total_columns |-> Len(d.columns),
     missing_values |-> MissingValues(d),
     duplicate_rows |-> DuplicateRows(d),
     fare_stats |-> IF HasColumn(d, TotalFare) THEN Some(FareStats(d)) ELSE None]

\* The aggregates of a fare column holding text raise a TypeError.
CalculateStatsRaise(d) ==
    /\ HasColumn(d, TotalFare)
    /\ \E i \in 1..NRows(d) : d.rows[i][TotalFare].k = "str"

----------------------------------------------------------------------------
\* FlightDataValidator.validate

\* The stats of a result before _calculate_stats has run: the empty dict.
NoStats ==
    [total_rows |-> 0, total_columns |-> 0, missing_values |-> <<>>,
     duplicate_rows |-> 0, fare_stats |-> None]

\* What the caller holds when no call has returned.
NoResult == [is_valid |-> FALSE, errors |-> <<>>, warnings |-> <<>>, stats |-> NoStats]

\* The results dictionary lives on and is reused by the next call.
SharedResults(last) == last

\* results = {"is_valid": False, "errors": [], "warnings": [], "stats": {}},
\* built anew by every call whatever the last call returned.
NewResults(last) ==
    [is_valid |-> FALSE, errors |-> <<>>, warnings |-> <<>>, stats |-> NoStats]

\* The flag is set before the schema is consulted.
SchemaStepFlagFirst(res, d) ==
    [res EXCEPT !.is_valid = TRUE, !.errors = SchemaFailureCases(d)]

\* The try block: is_valid becomes True when schema.validate returns; when it
\* raises SchemaErrors the failure cases become the errors.
SchemaStep(res, d) ==
    LET failure_cases == SchemaFailureCases(d)
    IN  IF failure_cases = <<>>
        THEN [res EXCEPT !.is_valid = TRUE]
        ELSE [res EXCEPT !.errors = failure_cases]

\* A warning also clears the flag.
BusinessStepBlocking(res, d) ==
    LET business_warnings == CheckBusinessRules(d)
    IN  [res EXCEPT !.warnings = @ \o business_warnings,
                    !.is_valid = @ /\ business_warnings = <<>>]

\* warnings_list.extend(business_warnings)
BusinessStep(res, d) == [res EXCEPT !.warnings = @ \o CheckBusinessRules(d)]

\* results["stats"] = self._calculate_stats(df)
StatsStep(res, d) == [res EXCEPT !.stats = CalculateStats(d)]

\* Does validate raise instead of returning?  schema.validate raises nothing
\* but the SchemaErrors that validate catches.
ValidateRaises(d) == BusinessRulesRaise(d) \/ CalculateStatsRaise(d)

ValidateResult(last, d) == StatsStep(BusinessStep(SchemaStep(NewResults(last), d), d), d)

----------------------------------------------------------------------------
\* The reports: generate_data_summary (scripts/data_summary.py) and
\* generate_quality_summary, verify_fare_calculation
\* (notebooks/scripts/data_quality.py).
\*
\* A score is a quotient of counts.  The model keeps it exact as a Ratio;
\* den = 0 is the NaN that numpy gives for 0 / 0 (a warning, no exception),
\* the only division by zero of the reports, on a dataset without rows.

\* q * k
Times(q, k) == Ratio(q.num * k, q.den)

\* 1 - q
OneMinus(q) == Ratio(q.den - q.num, q.den)

\* q + r
Plus(q, r) == Ratio((q.num * r.den) + (r.num * q.den), q.den * r.den)

\* q / k for a positive k
Over(q, k) == Ratio(q.num, q.den * k)

\* df[c] = cells: the column is added, or replaced, in this frame.
AssignColumn(d, c, dtype, cells) ==
    Frame(IF HasColumn(d, c) THEN d.columns ELSE Append(d.columns, c),
          [x \in DOMAIN d.dtypes \cup {c} |-> IF x = c THEN dtype ELSE d.dtypes[x]],
          [i \in 1..NRows(d) |->
              [x \in Range(d.columns) \cup {c} |-> IF x = c THEN cells[i] ELSE d.rows[i][x]]])

\* df.isnull().sum().sum()
MissingTotal(d) ==
    SumSeq([j \in 1..Len(d.columns) |-> MissingValues(d)[d.columns[j]]])

\* df.isnull().any(axis=1).sum(): the rows with a null cell.
IncompleteRows(d) ==
    CountTrue([i \in 1..NRows(d) |-> \E c \in Range(d.columns) : IsNull(d.rows[i][c])])

\* df["Source"] + " -> " + df["Destination"] (the source's arrow is written
\* in ASCII here); a null on either side gives a null.
Route(d) ==
    [i \in 1..NRows(d) |->
        IF IsNull(d.rows[i]["Source"]) \/ IsNull(d.rows[i]["Destination"]) THEN Null
        ELSE Str(d.rows[i]["Source"].s \o " -> " \o d.rows[i]["Destination"].s)]

\* df[base] + df[tax]; a null on either side gives a null.
CalculatedTotal(d) ==
    [i \in 1..NRows(d) |->
        IF IsNull(d.rows[i][BaseFare]) \/ IsNull(d.rows[i][TaxSurcharge]) THEN Null
        ELSE Num(d.rows[i][BaseFare].n + d.rows[i][TaxSurcharge].n)]

\* abs(df[total] - calculated)
FareDifference(d, calculated) ==
    [i \in 1..NRows(d) |->
        IF IsNull(d.rows[i][TotalFare]) \/ IsNull(calculated[i]) THEN Null
        ELSE Num(Abs(d.rows[i][TotalFare].n - calculated[i].n))]

\* The tolerance itself counts as exceeded.
ExceedsOrReaches(series, tolerance) ==
    [i \in DOMAIN series |-> ~IsNull(series[i]) /\ series[i].n >= tolerance]

\* series > tolerance; a null compares False.
Exceeds(series, tolerance) ==
    [i \in DOMAIN series |-> ~IsNull(series[i]) /\ series[i].n > tolerance]

\* The 1.0 BDT that generate_data_summary allows between total and base +
\* tax.
SummaryTolerance == 1

\* The dataframe of generate_data_summary when it computes the scores: the
\* Route column has been added to it.
SummaryFrame(d) == AssignColumn(d, "Route", "object", Route(d))

\* The scores count cells with a null instead of rows with a null.
DataSummaryByCells(d) ==
    LET n == NRows(d)
        dup_rows == DuplicateRows(d)
        scored == SummaryFrame(d)
        completeness == Times(Ratio((n * Len(scored.columns)) - MissingTotal(scored),
                                    n * Len(scored.columns)), 100)
        uniqueness == Times(OneMinus(Ratio(dup_rows, n)), 100)
        overall_quality == Over(Plus(completeness, uniqueness), 2)
        calculated == CalculatedTotal(scored)
    IN  [shape |-> <<n, Len(d.columns) + 2>>,
         missing_total |-> MissingTotal(d),
         duplicates |-> dup_rows,
         fare_mismatches |->
             CountTrue(Exceeds(FareDifference(scored, calculated), SummaryTolerance)),
         completeness |-> completeness,
         uniqueness |-> uniqueness,
         quality_score |-> overall_quality]

\* What generate_data_summary computes from the dataframe it has loaded:
\* the returned dict, the completeness and uniqueness it prints and the
\* fare_mismatches it counts for its recommendations.  The shape is taken
\* after Route and Calculated Total were added.
DataSummary(d) ==
    LET n == NRows(d)
        dup_rows == DuplicateRows(d)
        scored == SummaryFrame(d)
        completeness == Times(Ratio(n - IncompleteRows(scored), n), 100)
        uniqueness == Times(OneMinus(Ratio(dup_rows, n)), 100)
        overall_quality == Over(Plus(completeness, uniqueness), 2)
        calculated == CalculatedTotal(scored)
    IN  [shape |-> <<n, Len(d.columns) + 2>>,
         missing_total |-> MissingTotal(d),
         duplicates |-> dup_rows,
         fare_mismatches |->
             CountTrue(Exceeds(FareDifference(scored, calculated), SummaryTolerance)),
         completeness |-> completeness,
         uniqueness |-> uniqueness,
         quality_score |-> overall_quality]

\* df["Source"] + " -> " raises a TypeError when the Source column was read
\* as float64, which is how read_csv reads a column without any value.
DataSummaryRaises(d) ==
    NRows(d) > 0 /\ \A i \in 1..NRows(d) : IsNull(d.rows[i]["Source"])

\* The dict that generate_quality_summary returns.
QualitySummary(d) ==
    LET missing_total == MissingTotal(d)
        duplicate_total == DuplicateRows(d)
    IN  [total_rows |-> NRows(d),
         total_columns |-> Len(d.columns),
         missing_values |-> missing_total,
         duplicates |-> duplicate_total,
         quality_score |->
             Times(OneMinus(Ratio(missing_total + duplicate_total,
                                  NRows(d) * Len(d.columns))), 100)]

\* The dict that check_duplicates returns.
CheckDuplicates(d) ==
    [duplicate_rows |-> DuplicateRows(d),
     duplicate_flights |-> KeyDuplicates(d)]

\* The default of verify_fare_calculation's tolerance parameter.
DefaultTolerance == 1

\* The rows of df_temp that verify_fare_calculation returns: the first five
\* with a difference above the tolerance, under their index, or the empty
\* dataframe when there is none.
Sample(df_temp, over) ==
    LET picked == SelectSeq([i \in 1..NRows(df_temp) |-> i], LAMBDA i : over[i])
        head == SubSeq(picked, 1, IF Len(picked) < 5 THEN Len(picked) ELSE 5)
        columns == <<BaseFare, TaxSurcharge, TotalFare, "Fare Difference">>
    IN  IF picked = <<>>
        THEN [columns |-> <<>>, index |-> <<>>, rows |-> <<>>]
        ELSE [columns |-> columns,
              index |-> [j \in 1..Len(head) |-> head[j] - 1],
              rows |-> [j \in 1..Len(head) |->
                           [c \in Range(columns) |-> df_temp.rows[head[j]][c]]]]

\* df_temp is the caller's dataframe itself, not a copy of it.
VerifyFareCalculationResultNoCopy(d, tolerance) ==
    LET calculated == CalculatedTotal(d)
        with_total == AssignColumn(d, "Calculated Total", "float64", calculated)
        df_temp == AssignColumn(with_total, "Fare Difference", "float64",
                                FareDifference(with_total, calculated))
        over == Exceeds([i \in 1..NRows(d) |-> df_temp.rows[i]["Fare Difference"]], tolerance)
    IN  [caller |-> df_temp,
         df_temp |-> df_temp,
         mismatches |-> CountTrue(over),
         returned |-> Sample(df_temp, over)]

\* verify_fare_calculation(df, tolerance): the caller's dataframe after the
\* call, the working dataframe df_temp (a copy of df with the two derived
\* columns), the mismatch count and the returned sample.
VerifyFareCalculationResult(d, tolerance) ==
    LET calculated == CalculatedTotal(d)
        with_total == AssignColumn(d, "Calculated Total", "float64", calculated)
        df_temp == AssignColumn(with_total, "Fare Difference", "float64",
                                FareDifference(with_total, calculated))
        over == Exceeds([i \in 1..NRows(d) |-> df_temp.rows[i]["Fare Difference"]], tolerance)
    IN  [caller |-> d,
         df_temp |-> df_temp,
         mismatches |-> CountTrue(over),
         returned |-> Sample(df_temp, over)]

----------------------------------------------------------------------------
\* The snapshots of the model

ExtraColumn == "Notes"

AllColumns == DeclaredColumns \o <<ExtraColumn>>

DeclaredDtypes == [c \in Range(AllColumns) |->
                      IF c \in Range(DeclaredColumns) THEN Schema[c].dtype ELSE "object"]

Without(columns, c) == SelectSeq(columns, LAMBDA x : x # c)

\* The shapes a snapshot starts from: its columns and their dtypes.
Shapes ==
    { [columns |-> DeclaredColumns, dtypes |-> DeclaredDtypes],
      [columns |-> AllColumns, dtypes |-> DeclaredDtypes],
      [columns |-> Without(DeclaredColumns, TotalFare), dtypes |-> DeclaredDtypes],
      [columns |-> Without(DeclaredColumns, Departure), dtypes |-> DeclaredDtypes],
      [columns |-> DeclaredColumns, dtypes |-> [DeclaredDtypes EXCEPT ![TotalFare] = "object"]],
      [columns |-> DeclaredColumns, dtypes |-> [DeclaredDtypes EXCEPT ![Duration] = "int64"]],
      [columns |-> <<>>, dtypes |-> DeclaredDtypes] }

\* A row that passes the schema: fares 100 + 20 = 120.
BaseRow ==
    [c \in Range(AllColumns) |->
        CASE c = "Airline" -> Str("Biman Bangladesh")
          [] c = "Source" -> Str("DAC")
          [] c = "Destination" -> Str("CGP")
          [] c = Departure -> Str("2025-01-01 10:00")
          [] c = "Duration (hrs)" -> Num(1)
          [] c = "Class" -> Str("Economy")
          [] c = BaseFare -> Num(100)
          [] c = TaxSurcharge -> Num(20)
          [] c = TotalFare -> Num(120)
          [] c = "Days Before Departure" -> Num(30)
          [] OTHER -> Str("x")]

WithFares(row, base, tax, total) ==
    [row EXCEPT ![BaseFare] = Num(base), ![TaxSurcharge] = Num(tax), ![TotalFare] = total]

\* The rows a caller may append to a snapshot that has exactly the declared
\* columns, with the declared dtypes.
RowChoices ==
    { BaseRow,
      WithFares(BaseRow, 100, 20, Num(200)),
      WithFares([BaseRow EXCEPT !["Class"] = Str("Business")], 100, 20, Num(121)),
      WithFares([BaseRow EXCEPT ![Departure] = Str("2025-01-02 09:30"),
                                 !["Aircraft Type"] = Null], 900, 100, Num(1000)),
      WithFares([BaseRow EXCEPT ![Departure] = Str("2025-01-03 23:15")], 12000, 3000, Num(15000)),
      WithFares([BaseRow EXCEPT !["Destination"] = Str("JFK")], 1000, 200, Num(1200)),
      WithFares([BaseRow EXCEPT !["Source"] = Str("dac"), !["Class"] = Str("Premium"),
                                 !["Airline"] = Null], 0, 20, Null) }

\* The rows a caller may append to a snapshot of another shape with numeric
\* fare columns.
FewRowChoices ==
    { BaseRow,
      WithFares(BaseRow, 100, 20, Num(200)),
      WithFares([BaseRow EXCEPT !["Class"] = Str("Business")], 100, 20, Num(121)),
      WithFares([BaseRow EXCEPT ![Departure] = Str("2025-01-03 23:15"),
                                 !["Aircraft Type"] = Null], 12000, 3000, Num(15000)) }

\* The rows a caller may append to a snapshot with an undeclared column: one
\* of them fails the schema.
ExtraRowChoices ==
    FewRowChoices
    \cup { WithFares([BaseRow EXCEPT !["Source"] = Str("dac"), !["Class"] = Str("Premium"),
                                     !["Airline"] = Null], 0, 20, Null) }

\* The rows of a snapshot whose fare column was read as text.
TextRows ==
    { [BaseRow EXCEPT ![TotalFare] = Str("120.0")],
      [BaseRow EXCEPT ![TotalFare] = Str("unknown")] }

\* The rows of a snapshot whose durations were read as whole numbers
\* (dtype int64): 1 hour, 60 hours and 0 hours.
WholeDurationRows ==
    { BaseRow,
      [BaseRow EXCEPT ![Departure] = Str("2025-01-02 09:30"), ![Duration] = Num(60)],
      [BaseRow EXCEPT ![Departure] = Str("2025-01-03 23:15"), ![Duration] = Num(0)] }

Restrict(row, columns) == [c \in Range(columns) |-> row[c]]

RowsFor(d) ==
    IF d.columns = <<>> THEN {}
    ELSE IF HasColumn(d, TotalFare) /\ d.dtypes[TotalFare] = "object"
    THEN {Restrict(r, d.columns) : r \in TextRows}
    ELSE IF HasColumn(d, Duration) /\ d.dtypes[Duration] = "int64"
    THEN {Restrict(r, d.columns) : r \in WholeDurationRows}
    ELSE IF d.columns = DeclaredColumns THEN {Restrict(r, d.columns) : r \in RowChoices}
    ELSE IF HasColumn(d, ExtraColumn) THEN {Restrict(r, d.columns) : r \in ExtraRowChoices}
    ELSE {Restrict(r, d.columns) : r \in FewRowChoices}

\* The largest number of rows of a dataset that the reports are run on.
MaxReportRows == 10

\* The dtypes that pd.read_csv infers: object for every column of a file
\* without rows, float64 for a column without any value and for an integer
\* column with a gap, the declared dtype otherwise.
ReadCsvDtypes(rows) ==
    [c \in Range(AllColumns) |->
        IF rows = <<>> THEN "object"
        ELSE IF \A i \in 1..Len(rows) : c \in DOMAIN rows[i] => IsNull(rows[i][c])
        THEN "float64"
        ELSE IF DeclaredDtypes[c] = "int64" /\ \E i \in 1..Len(rows) : IsNull(rows[i][c])
        THEN "float64"
        ELSE DeclaredDtypes[c]]

\* The dataframe read from a file with the declared columns.
ReadCsv(rows) == Frame(DeclaredColumns, ReadCsvDtypes(rows), rows)

ReportRowKinds == <<"complete", "rounded", "mismatch", "incomplete", "blank", "copy">>

\* The n-th line of a dataset, by kind: a flight of its own that passes the
\* schema, one whose total is 1 BDT above base + tax, one whose total is 30
\* BDT above, one without airline, a line without any value, or the first
\* line again.
ReportRow(kind, n, rows) ==
    LET fresh == Restrict([BaseRow EXCEPT ![Departure] = Str("2025-02-" \o ToString(10 + n))],
                          DeclaredColumns)
    IN  CASE kind = "complete" -> fresh
          [] kind = "rounded" -> WithFares(fresh, 100, 20, Num(121))
          [] kind = "mismatch" -> WithFares(fresh, 100, 20, Num(150))
          [] kind = "incomplete" -> [fresh EXCEPT !["Airline"] = Null]
          [] kind = "blank" -> [c \in Range(DeclaredColumns) |-> Null]
          [] kind = "copy" -> rows[1]

\* The kind of the last line of a dataset, as its position in
\* ReportRowKinds; 1 for a dataset without lines.
LastKind(rows) ==
    LET n == Len(rows)
        row == rows[n]
    IN  IF n = 0 THEN 1
        ELSE IF n > 1 /\ row = rows[1] THEN 6
        ELSE IF \A c \in DOMAIN row : IsNull(row[c]) THEN 5
        ELSE IF IsNull(row["Airline"]) THEN 4
        ELSE IF row[TotalFare].n = row[BaseFare].n + row[TaxSurcharge].n THEN 1
        ELSE IF row[TotalFare].n = row[BaseFare].n + row[TaxSurcharge].n + 1 THEN 2
        ELSE 3

----------------------------------------------------------------------------
\* Files: DataIngestion.download_from_kaggle (src/data/ingestion.py),
\* load_flight_data (notebooks/scripts/data_loader.py) and
\* validate_raw_data (src/data/validation.py).
\*
\* A file system is a function from the paths that exist to the lines of the
\* file.  A call is described by the record [op, path, outcome, error,
\* value, steps]: the function called, its path argument, "returned" or
\* "raised", the exception, the returned value and the steps it took.

DataDir == "data/01-raw"

ExpectedFilename == "Flight_Price_Dataset_of_Bangladesh.csv"

\* target_file = self.data_dir / self.expected_filename
TargetFile == DataDir \o "/" \o ExpectedFilename

\* Another file of the data directory.
OtherFile == DataDir \o "/flights_sample.csv"

Paths == {TargetFile, OtherFile}

\* The lines a file of the model may hold: none but the header, or one
\* flight.
Contents == { <<>>, <<Restrict(BaseRow, DeclaredColumns)>> }

NoFiles == [p \in {} |-> <<>>]

Exists(files, path) == path \in DOMAIN files

\* The files after the archive was unzipped into the directory.
Unzipped(files, archive) ==
    [p \in DOMAIN files \cup DOMAIN archive |->
        IF p \in DOMAIN archive THEN archive[p] ELSE files[p]]

\* Kaggle as download_from_kaggle meets it: is the package installed, are
\* credentials configured, does the download go through, and which files
\* does the dataset's archive hold.
KaggleReady ==
    [installed |-> TRUE, credentials |-> TRUE, reachable |-> TRUE,
     archive |-> [p \in {TargetFile} |-> <<Restrict(BaseRow, DeclaredColumns)>>]]

Raised(op, path, error, steps) ==
    [op |-> op, path |-> path, outcome |-> "raised", error |-> Some(error),
     value |-> None, steps |-> steps]

ReturnedValue(op, path, value, steps) ==
    [op |-> op, path |-> path, outcome |-> "returned", error |-> None,
     value |-> Some(value), steps |-> steps]

NoFileCall ==
    [op |-> "none", path |-> None, outcome |-> "none", error |-> None,
     value |-> None, steps |-> <<>>]

\* The file is not looked for after the download.
DownloadFromKaggleUnchecked(files, k) ==
    IF ~k.installed
    THEN [files |-> files,
          call |-> Raised("download_from_kaggle", None, "ImportError", <<"import">>)]
    ELSE IF ~k.credentials
    THEN [files |-> files,
          call |-> Raised("download_from_kaggle", None, "OSError",
                          <<"import", "authenticate">>)]
    ELSE IF Exists(files, TargetFile)
    THEN [files |-> files,
          call |-> ReturnedValue("download_from_kaggle", None, TargetFile,
                                 <<"import", "authenticate", "exists">>)]
    ELSE IF ~k.reachable
    THEN [files |-> files,
          call |-> Raised("download_from_kaggle", None, "ApiException",
                          <<"import", "authenticate", "exists", "download">>)]
    ELSE [files |-> Unzipped(files, k.archive),
          call |-> ReturnedValue("download_from_kaggle", None, TargetFile,
                                 <<"import", "authenticate", "exists", "download">>)]

\* download_from_kaggle(): the call and the files afterwards.  Every
\* exception is logged and raised again.  Without credentials
\* api.authenticate() raises; a file that is already there is returned
\* without a download; after the download the file must be there.
DownloadFromKaggleResult(files, k) ==
    IF ~k.installed
    THEN [files |-> files,
          call |-> Raised("download_from_kaggle", None, "ImportError", <<"import">>)]
    ELSE IF ~k.credentials
    THEN [files |-> files,
          call |-> Raised("download_from_kaggle", None, "OSError",
                          <<"import", "authenticate">>)]
    ELSE IF Exists(files, TargetFile)
    THEN [files |-> files,
          call |-> ReturnedValue("download_from_kaggle", None, TargetFile,
                                 <<"import", "authenticate", "exists">>)]
    ELSE IF ~k.reachable
    THEN [files |-> files,
          call |-> Raised("download_from_kaggle", None, "ApiException",
                          <<"import", "authenticate", "exists", "download">>)]
    ELSE IF ~Exists(Unzipped(files, k.archive), TargetFile)
    THEN [files |-> Unzipped(files, k.archive),
          call |-> Raised("download_from_kaggle", None, "FileNotFoundError",
                          <<"import", "authenticate", "exists", "download", "exists">>)]
    ELSE [files |-> Unzipped(files, k.archive),
          call |-> ReturnedValue("download_from_kaggle", None, TargetFile,
                                 <<"import", "authenticate", "exists", "download", "exists">>)]

\* A path that does not exist is read as a dataset without rows.
LoadFlightDataLenient(files, path) ==
    IF ~Exists(files, path)
    THEN ReturnedValue("load_flight_data", Some(path), ReadCsv(<<>>), <<"exists">>)
    ELSE ReturnedValue("load_flight_data", Some(path), ReadCsv(files[path]),
                       <<"exists", "read_csv">>)

\* load_flight_data(data_path)
LoadFlightDataResult(files, path) ==
    IF ~Exists(files, path)
    THEN Raised("load_flight_data", Some(path), "FileNotFoundError", <<"exists">>)
    ELSE ReturnedValue("load_flight_data", Some(path), ReadCsv(files[path]),
                       <<"exists", "read_csv">>)

\* validate_raw_data(filepath): pd.read_csv raises FileNotFoundError for a
\* path that does not exist; else a new validator validates the dataframe.
ValidateRawDataResult(files, path) ==
    IF ~Exists(files, path)
    THEN Raised("validate_raw_data", Some(path), "FileNotFoundError", <<"read_csv">>)
    ELSE LET loaded == ReadCsv(files[path])
         IN  IF ValidateRaises(loaded)
             THEN Raised("validate_raw_data", Some(path), "TypeError",
                         <<"read_csv", "validate">>)
             ELSE ReturnedValue("validate_raw_data", Some(path),
                                ValidateResult(NoResult, loaded),
                                <<"read_csv", "validate", "print">>)

----------------------------------------------------------------------------
\* The state machine.  df is the caller's snapshot; arg, outcome and results
\* describe the latest validate call (the snapshot it was given, whether it
\* returned or raised, and what it returned); prev describes the call before.

NoCall(d) == [arg |-> d, outcome |-> "none", results |-> NoResult]

\* A report that has not been run.
NoReport == [outcome |-> "none"]

Init ==
    /\ df \in {Frame(shape.columns, shape.dtypes, <<>>) : shape \in Shapes}
    /\ arg = df
    /\ outcome = "none"
    /\ results = NoResult
    /\ prev = NoCall(df)
    /\ summary = NoReport /\ quality = NoReport /\ verified = NoReport
    /\ fs = NoFiles /\ kaggle = KaggleReady /\ call = NoFileCall

\* The caller derives a snapshot with one more row.  The model follows a
\* caller up to its second call: the snapshot of that call is validated
\* again, but grows no more, and neither does a snapshot whose undeclared
\* column was dropped.
AppendRow ==
    /\ NRows(df) < MaxRows
    /\ prev.outcome = "none" /\ arg.columns = df.columns
    /\ \E row \in RowsFor(df) : df' = [df EXCEPT !.rows = Append(@, row)]
    /\ UNCHANGED <<arg, outcome, results, prev, summary, quality, verified>>
    /\ UNCHANGED fileVars

\* validator.validate(df)
Validate ==
    /\ arg' = df
    /\ prev' = [arg |-> arg, outcome |-> outcome, results |-> results]
    /\ IF ValidateRaises(df)
       THEN outcome' = "raised" /\ results' = NoResult
       ELSE outcome' = "returned" /\ results' = ValidateResult(results, df)
    /\ UNCHANGED <<df, summary, quality, verified>>
    /\ UNCHANGED fileVars

\* After a call the caller derives, from the snapshot it has just had
\* validated, the snapshot without the undeclared column; the declared
\* columns and the rows stay as they are.
DropExtraColumn ==
    /\ HasColumn(df, ExtraColumn)
    /\ outcome # "none" /\ arg = df
    /\ prev.outcome = "none"
    /\ df' = Frame(Without(df.columns, ExtraColumn), df.dtypes,
                   [i \in 1..NRows(df) |-> Restrict(df.rows[i], Without(df.columns, ExtraColumn))])
    /\ UNCHANGED <<arg, outcome, results, prev, summary, quality, verified>>
    /\ UNCHANGED fileVars

Next == AppendRow \/ Validate \/ DropExtraColumn

Spec == Init /\ [][Next]_vars

----------------------------------------------------------------------------
\* The reports as a state machine.  df is the dataset: a file of up to
\* MaxReportRows lines, as pd.read_csv loads it.  summary, quality and
\* verified describe the call of generate_data_summary, of
\* generate_quality_summary and of verify_fare_calculation: the dataframe
\* given, whether the call returned or raised, and what it computed.  The
\* model follows a dataset up to the first call on it.

NoCallYet ==
    /\ outcome = "none"
    /\ summary.outcome = "none" /\ quality.outcome = "none" /\ verified.outcome = "none"

ReportsInit ==
    /\ df = ReadCsv(<<>>)
    /\ arg = df
    /\ outcome = "none"
    /\ results = NoResult
    /\ prev = NoCall(df)
    /\ summary = NoReport /\ quality = NoReport /\ verified = NoReport
    /\ fs = NoFiles /\ kaggle = KaggleReady /\ call = NoFileCall

\* The dataset gets one more line.  Lines come in the order of their kinds:
\* the reports count rows, and no count depends on the order of the rows.
LoadRow ==
    /\ NRows(df) < MaxReportRows
    /\ NoCallYet
    /\ \E k \in LastKind(df.rows)..Len(ReportRowKinds) :
          /\ ReportRowKinds[k] = "copy" => NRows(df) > 0
          /\ df' = ReadCsv(Append(df.rows, ReportRow(ReportRowKinds[k], NRows(df) + 1, df.rows)))
    /\ UNCHANGED <<arg, outcome, results, prev, summary, quality, verified>>
    /\ UNCHANGED fileVars

\* validator.validate(df) as the first call on the dataset.
ValidateLoaded == NoCallYet /\ Validate

\* The aggregates that the reports print work on the text columns of a
\* dataset without rows in some pandas versions and raise in others.
ReportOutcomes(raises, d) ==
    IF raises THEN {"raised"}
    ELSE IF NRows(d) = 0 THEN {"raised", "returned"}
    ELSE {"returned"}

\* generate_data_summary(filepath); the function loads its own dataframe.
GenerateDataSummary ==
    /\ NoCallYet
    /\ \E o \in ReportOutcomes(DataSummaryRaises(df), df) :
          summary' = IF o = "raised" THEN [outcome |-> o, given |-> df]
                     ELSE [outcome |-> o, given |-> df, result |-> DataSummary(df)]
    /\ UNCHANGED <<df, arg, outcome, results, prev, quality, verified>>
    /\ UNCHANGED fileVars

\* generate_quality_summary(df)
GenerateQualitySummary ==
    /\ NoCallYet
    /\ \E o \in ReportOutcomes(FALSE, df) :
          quality' = IF o = "raised" THEN [outcome |-> o, given |-> df]
                     ELSE [outcome |-> o, given |-> df, result |-> QualitySummary(df)]
    /\ UNCHANGED <<df, arg, outcome, results, prev, summary, verified>>
    /\ UNCHANGED fileVars

\* verify_fare_calculation(df): df is the caller's dataframe after the call.
VerifyFareCalculation ==
    /\ NoCallYet
    /\ verified' = [outcome |-> "returned", given |-> df,
                    result |-> VerifyFareCalculationResult(df, DefaultTolerance)]
    /\ df' = VerifyFareCalculationResult(df, DefaultTolerance).caller
    /\ UNCHANGED <<arg, outcome, results, prev, summary, quality>>
    /\ UNCHANGED fileVars

ReportsNext ==
    \/ LoadRow
    \/ ValidateLoaded
    \/ GenerateDataSummary
    \/ GenerateQualitySummary
    \/ VerifyFareCalculation

SpecReports == ReportsInit /\ [][ReportsNext]_vars

----------------------------------------------------------------------------
\* The files as a state machine.  fs is the file system, kaggle the setup
\* that download_from_kaggle meets, call the latest call of
\* download_from_kaggle, load_flight_data or validate_raw_data.  Files are
\* written and removed by others before the first call only.

KaggleSetups ==
    { [installed |-> i, credentials |-> c, reachable |-> r, archive |-> a] :
        i \in BOOLEAN, c \in BOOLEAN, r \in BOOLEAN,
        a \in { NoFiles,
                [p \in {TargetFile} |-> <<Restrict(BaseRow, DeclaredColumns)>>],
                [p \in {OtherFile} |-> <<Restrict(BaseRow, DeclaredColumns)>>],
                [p \in Paths |-> <<Restrict(BaseRow, DeclaredColumns)>>] } }

FilesInit ==
    /\ df = ReadCsv(<<>>)
    /\ arg = df
    /\ outcome = "none"
    /\ results = NoResult
    /\ prev = NoCall(df)
    /\ summary = NoReport /\ quality = NoReport /\ verified = NoReport
    /\ fs = NoFiles
    /\ kaggle \in KaggleSetups
    /\ call = NoFileCall

WriteFile ==
    /\ call.op = "none"
    /\ \E p \in Paths : \E c \in Contents : fs' = Unzipped(fs, [q \in {p} |-> c])
    /\ UNCHANGED <<kaggle, call>>
    /\ UNCHANGED frameVars

RemoveFile ==
    /\ call.op = "none"
    /\ \E p \in DOMAIN fs : fs' = [q \in DOMAIN fs \ {p} |-> fs[q]]
    /\ UNCHANGED <<kaggle, call>>
    /\ UNCHANGED frameVars

\* ingestion.download_from_kaggle()
DownloadFromKaggle ==
    /\ fs' = DownloadFromKaggleResult(fs, kaggle).files
    /\ call' = DownloadFromKaggleResult(fs, kaggle).call
    /\ UNCHANGED kaggle
    /\ UNCHANGED frameVars

\* load_flight_data(path)
LoadFlightData ==
    /\ \E p \in Paths : call' = LoadFlightDataResult(fs, p)
    /\ UNCHANGED <<fs, kaggle>>
    /\ UNCHANGED frameVars

\* validate_raw_data(path)
ValidateRawData ==
    /\ \E p \in Paths : call' = ValidateRawDataResult(fs, p)
    /\ UNCHANGED <<fs, kaggle>>
    /\ UNCHANGED frameVars

FilesNext ==
    \/ WriteFile
    \/ RemoveFile
    \/ DownloadFromKaggle
    \/ LoadFlightData
    \/ ValidateRawData

SpecFiles == FilesInit /\ [][FilesNext]_vars

----------------------------------------------------------------------------
\* Properties of validate.  They speak of the latest call: its snapshot arg,
\* its outcome and the result it returned.

Returned == outcome = "returned"

WarningsOf(rule) == SelectSeq(results.warnings, LAMBDA w : w.rule = rule)

\* Every declared column is in the snapshot with its declared dtype.
WellTyped(d) ==
    \A c \in Range(DeclaredColumns) : HasColumn(d, c) /\ d.dtypes[c] = Schema[c].dtype

\* C1: whenever validate returns, is_valid is true exactly when errors is
\* empty.
C1_ValidIffNoErrors ==
    Returned => (results.is_valid <=> Len(results.errors) = 0)

\* C1 witness: a returned result that is invalid and lists several errors.
C1_Witness ==
    Returned /\ ~results.is_valid /\ Len(results.errors) >= 2

\* C2: is_valid and errors of a returned result are those the schema check
\* alone gives, whatever warnings the business rules add; a snapshot that
\* passes the schema is valid even with all three warnings.
C2_WarningsNeverAffectValidity ==
    Returned =>
        LET schema == SchemaStep(NoResult, arg)
        IN  /\ results.is_valid = schema.is_valid
            /\ results.errors = schema.errors
            /\ (SchemaFailureCases(arg) = <<>> => results.is_valid)

\* C2 witness: a valid result carrying all three warnings.
C2_Witness ==
    Returned /\ results.is_valid /\ Len(results.warnings) = 3

\* C3 as stated: every snapshot with zero rows is valid, without errors,
\* with total_rows = 0.
C3_ZeroRowsAlwaysValid ==
    (Returned /\ NRows(arg) = 0) =>
        (results.is_valid /\ results.errors = <<>> /\ results.stats.total_rows = 0)

\* C3 amended: for a snapshot with zero rows validate returns
\* total_rows = 0, and is_valid = true without errors exactly when every
\* declared column is present with its declared dtype.
C3_ZeroRowsValidWhenWellTyped ==
    (outcome # "none" /\ NRows(arg) = 0) =>
        /\ Returned
        /\ results.stats.total_rows = 0
        /\ results.is_valid <=> WellTyped(arg)
        /\ (results.errors = <<>>) <=> WellTyped(arg)

\* C3 witness: a returned valid result for a snapshot without rows.
C3_Witness ==
    Returned /\ NRows(arg) = 0 /\ results.is_valid /\ HasColumn(arg, ExtraColumn)

\* The violations of the schema in a snapshot, each as
\* <<column, what is violated, row index or -1>>: a declared column that is
\* absent, a dtype other than the declared one, a null cell of a column that
\* is not nullable, a non-null cell failing a check, and a check that cannot
\* be evaluated on its column.
Violations(d) ==
    LET declared == Range(DeclaredColumns)
        present == {c \in declared : HasColumn(d, c)}
        rows == 1..NRows(d)
        checks(c) == 1..Len(Schema[c].checks)
    IN  {<<c, "column_in_dataframe", -1>> : c \in declared \ present}
        \cup {<<c, "dtype", -1>> : c \in {x \in present : d.dtypes[x] # Schema[x].dtype}}
        \cup UNION {{<<c, "not_nullable", i - 1>> :
                        i \in {r \in rows : d.rows[r][c].k = "null"}} :
                    c \in {x \in present : ~Schema[x].nullable}}
        \cup UNION {UNION {IF CheckRaises(d, c, Schema[c].checks[k])
                           THEN {<<c, Schema[c].checks[k].name, -1>>}
                           ELSE {<<c, Schema[c].checks[k].name, i - 1>> :
                                    i \in {r \in rows :
                                              /\ d.rows[r][c].k # "null"
                                              /\ ~CheckHolds(Schema[c].checks[k], d.rows[r][c])}} :
                           k \in checks(c)} :
                    c \in present}

\* What a failure record is about, in the form of Violations.
ViolationOf(e) ==
    << IF e.column = None THEN e.failure_case.s ELSE e.column[1],
       IF e.check_number = None /\ e.check \notin {"column_in_dataframe", "not_nullable"}
       THEN "dtype" ELSE e.check,
       IF e.index = None THEN -1 ELSE e.index[1] >>

\* C4: the errors of a returned result hold one record for every violation
\* of the schema in the snapshot, whatever came before it: every absent
\* column, every mismatched dtype, and every (row, column, check) failure.
C4_CollectAll ==
    Returned =>
        /\ {ViolationOf(results.errors[j]) : j \in 1..Len(results.errors)} = Violations(arg)
        /\ Len(results.errors) = Cardinality(Violations(arg))

\* C4 witness: errors on two rows and on two columns of one snapshot.
C4_Witness ==
    /\ Returned
    /\ \E i, j \in 1..Len(results.errors) :
          /\ results.errors[i].index # None /\ results.errors[j].index # None
          /\ results.errors[i].index # results.errors[j].index
    /\ \E i, j \in 1..Len(results.errors) :
          /\ results.errors[i].index = results.errors[j].index
          /\ results.errors[i].column # results.errors[j].column

\* C5: when the schema check fails, validate still returns, with
\* is_valid = false, the collected errors, the warnings and the stats.
C5_SchemaFailureStillReturns ==
    (outcome # "none" /\ SchemaFailureCases(arg) # <<>>) =>
        /\ Returned
        /\ ~results.is_valid
        /\ results.errors = SchemaFailureCases(arg)
        /\ results.stats.total_rows = NRows(arg)

\* C6: a call on the snapshot of the call before gives the same outcome and
\* the same result, and a result holds no warning or error but those of its
\* own call's snapshot.
C6_IdempotentAndIsolated ==
    /\ (outcome # "none" /\ prev.outcome # "none" /\ prev.arg = arg) =>
            (prev.outcome = outcome /\ prev.results = results)
    /\ Returned =>
            /\ Len(results.warnings) <= Len(CheckBusinessRules(arg))
            /\ Range(results.warnings) \subseteq Range(CheckBusinessRules(arg))
            /\ Len(results.errors) <= Len(SchemaFailureCases(arg))
            /\ Range(results.errors) \subseteq Range(SchemaFailureCases(arg))

\* C6 witness: two returned calls in a row on one snapshot that has errors
\* and warnings.
C6_Witness ==
    /\ Returned /\ prev.outcome = "returned" /\ prev.arg = arg
    /\ Len(results.warnings) > 0 /\ Len(results.errors) > 0

\* The fares <<base, tax, total>> of the rows of a snapshot, in row order.
FareTriples(d) ==
    [i \in 1..NRows(d) |->
        <<d.rows[i][BaseFare], d.rows[i][TaxSurcharge], d.rows[i][TotalFare]>>]

\* C7: with the three fare columns present, the fare rule counts exactly the
\* rows whose total differs from base + tax by more than 1 (a difference of
\* exactly 1 does not count); a positive count gives exactly one warning of
\* severity "warning" whose message states the count, a count of zero none.
\* The rows (100, 20, 120), (100, 20, 200) give one warning naming 1 row.
C7_FareConsistencyRule ==
    (Returned /\ HasAll(arg, FareColumns)) =>
        LET off(i) == LET row == arg.rows[i]
                      IN  /\ row[BaseFare].k = "num"
                          /\ row[TaxSurcharge].k = "num"
                          /\ row[TotalFare].k = "num"
                          /\ \/ row[TotalFare].n - (row[BaseFare].n + row[TaxSurcharge].n) > 1
                             \/ (row[BaseFare].n + row[TaxSurcharge].n) - row[TotalFare].n > 1
            count == Cardinality({i \in 1..NRows(arg) : off(i)})
            found == WarningsOf("Total Fare Calculation")
        IN  /\ count = 0 => found = <<>>
            /\ count > 0 =>
                  /\ Len(found) = 1
                  /\ found[1].severity = "warning"
                  /\ found[1].message =
                        ToString(count) \o " rows have Total Fare != Base Fare + Tax"
            /\ FareTriples(arg) = << <<Num(100), Num(20), Num(120)>>,
                                     <<Num(100), Num(20), Num(200)>> >>
                  => /\ Len(found) = 1
                     /\ found[1].message = "1 rows have Total Fare != Base Fare + Tax"

\* C7 witness: the two rows (100, 20, 120), (100, 20, 200) were validated
\* and the warning was given.
C7_Witness ==
    /\ Returned /\ HasAll(arg, FareColumns)
    /\ FareTriples(arg) = << <<Num(100), Num(20), Num(120)>>, <<Num(100), Num(20), Num(200)>> >>
    /\ Len(WarningsOf("Total Fare Calculation")) = 1

\* C8: with the four key columns present, the duplicate rule counts every
\* row whose key equals the key of an earlier row, whatever the other
\* columns hold; a positive count gives exactly one warning of severity
\* "info" stating it.  Two rows equal on the key and different elsewhere
\* count 1 while stats.duplicate_rows is 0.
C8_DuplicateFlightsRule ==
    (Returned /\ HasAll(arg, KeyColumns)) =>
        LET key(i) == [c \in Range(KeyColumns) |-> arg.rows[i][c]]
            count == Cardinality({i \in 1..NRows(arg) : \E j \in 1..NRows(arg) :
                                                            j < i /\ key(j) = key(i)})
            found == WarningsOf("Duplicate Flights")
        IN  /\ count > 0 =>
                  /\ Len(found) = 1
                  /\ found[1].severity = "info"
                  /\ found[1].message =
                        ToString(count) \o " potential duplicate flight records found"
            /\ (NRows(arg) = 2 /\ key(1) = key(2) /\ arg.rows[1] # arg.rows[2]) =>
                  /\ count = 1
                  /\ results.stats.duplicate_rows = 0

\* C8 witness: two rows equal on the key and different elsewhere were
\* validated: one key duplicate is reported, no full-row duplicate.
C8_Witness ==
    /\ Returned /\ HasAll(arg, KeyColumns) /\ NRows(arg) = 2
    /\ \A c \in Range(KeyColumns) : arg.rows[1][c] = arg.rows[2][c]
    /\ arg.rows[1] # arg.rows[2]
    /\ Len(WarningsOf("Duplicate Flights")) = 1
    /\ results.stats.duplicate_rows = 0

\* Twice the median of a non-empty list of numbers: the sum of the lower and
\* the upper middle value.
TwiceMedian(xs) ==
    LET n == Len(xs)
        half == (n + 1) \div 2
        atMost(v) == Cardinality({i \in 1..n : xs[i] <= v})
        atLeast(v) == Cardinality({i \in 1..n : xs[i] >= v})
        lower == CHOOSE v \in Range(xs) :
                    /\ atMost(v) >= half
                    /\ \A w \in Range(xs) : atMost(w) >= half => v <= w
        upper == CHOOSE v \in Range(xs) :
                    /\ atLeast(v) >= half
                    /\ \A w \in Range(xs) : atLeast(w) >= half => v >= w
    IN  lower + upper

\* C9: with the fare column present and m the median fare, the outlier rule
\* counts exactly the rows with fare > 10 m or fare < 0.1 m (a fare equal to
\* 10 m or to 0.1 m does not count); a positive count gives exactly one
\* warning of severity "info" stating it.  With median 1000 and one row of
\* fare 15000 exactly one outlier is flagged.
C9_FareOutlierRule ==
    (Returned /\ HasColumn(arg, TotalFare)) =>
        LET rows == {i \in 1..NRows(arg) : arg.rows[i][TotalFare].k = "num"}
            fare(i) == arg.rows[i][TotalFare].n
            m2 == TwiceMedian(Fares(arg))
            count == IF rows = {} THEN 0
                     ELSE Cardinality({i \in rows : \/ 2 * fare(i) > 10 * m2
                                                     \/ 20 * fare(i) < m2})
            found == WarningsOf("Fare Outliers")
        IN  /\ count > 0 =>
                  /\ Len(found) = 1
                  /\ found[1].severity = "info"
                  /\ found[1].message =
                        ToString(count) \o " rows with extreme fares (10x or 0.1x median)"
            /\ count = 0 => found = <<>>
            /\ (rows # {} /\ m2 = 2000 /\ Cardinality({i \in rows : fare(i) = 15000}) = 1
                   /\ \A i \in rows : fare(i) \in {1000, 15000})
                  => /\ Len(found) = 1
                     /\ found[1].message = "1 rows with extreme fares (10x or 0.1x median)"

\* C9 witness: fares 1000, 1000 and 15000 (median 1000) were validated and
\* one outlier was flagged.
C9_Witness ==
    /\ Returned /\ HasColumn(arg, TotalFare) /\ NRows(arg) = 3
    /\ Sort(Fares(arg)) = <<1000, 1000, 15000>>
    /\ Len(WarningsOf("Fare Outliers")) = 1
    /\ WarningsOf("Fare Outliers")[1].message = "1 rows with extreme fares (10x or 0.1x median)"

RuleOrder == <<"Total Fare Calculation", "Duplicate Flights", "Fare Outliers">>

\* C10: the warnings of a returned result name rules of RuleOrder, in that
\* order and each at most once, so at most three; and each rule's warning is
\* there exactly when that rule's own columns are present and its own count
\* is positive, whatever the other rules found.
C10_WarningOrder ==
    Returned =>
        LET ws == results.warnings
            rank(rule) == CHOOSE k \in 1..Len(RuleOrder) : RuleOrder[k] = rule
            has(rule) == \E j \in 1..Len(ws) : ws[j].rule = rule
        IN  /\ Len(ws) <= 3
            /\ \A j \in 1..Len(ws) : ws[j].rule \in Range(RuleOrder)
            /\ \A i, j \in 1..Len(ws) : i < j => rank(ws[i].rule) < rank(ws[j].rule)
            /\ has("Total Fare Calculation") <=>
                  (HasAll(arg, FareColumns) /\ \E i \in 1..NRows(arg) : FareMismatch(arg.rows[i]))
            /\ has("Duplicate Flights") <=>
                  (HasAll(arg, KeyColumns)
                   /\ \E i \in 1..NRows(arg) : Duplicated(arg, Range(KeyColumns), i))
            /\ has("Fare Outliers") <=>
                  (HasColumn(arg, TotalFare)
                   /\ \E i \in 1..NRows(arg) : IsOutlier(arg.rows[i][TotalFare], Median2(arg)))

\* C10 witness: all three rules fired in one call, in declaration order.
C10_Witness ==
    /\ Returned
    /\ [j \in 1..Len(results.warnings) |-> results.warnings[j].rule] = RuleOrder

\* C11: the business-rule checker raises for no snapshot, and a rule whose
\* columns are not all present gives no warning while the other rules are
\* still evaluated.
C11_BusinessRulesNeverRaise ==
    outcome # "none" =>
        /\ ~BusinessRulesRaise(arg)
        /\ Returned =>
              /\ ~HasAll(arg, FareColumns) => WarningsOf("Total Fare Calculation") = <<>>
              /\ ~HasAll(arg, KeyColumns) => WarningsOf("Duplicate Flights") = <<>>
              /\ ~HasColumn(arg, TotalFare) => WarningsOf("Fare Outliers") = <<>>

\* The records of the errors that report column c as absent.
AbsenceRecords(c) ==
    SelectSeq(results.errors,
              LAMBDA e : e.schema_context = "DataFrameSchema" /\ e.failure_case = Str(c))

\* C16: a declared column with nullable=False that is absent from the
\* snapshot gives exactly one error record, at schema level and without a
\* row index, however many rows there are, and is_valid is false.
C16_MissingColumnOneError ==
    Returned =>
        \A c \in {x \in Range(DeclaredColumns) : ~Schema[x].nullable /\ ~HasColumn(arg, x)} :
            /\ Len(AbsenceRecords(c)) = 1
            /\ AbsenceRecords(c)[1].index = None
            /\ AbsenceRecords(c)[1].column = None
            /\ \A j \in 1..Len(results.errors) : results.errors[j].column # Some(c)
            /\ ~results.is_valid

\* C16 witness: a snapshot of several rows without the departure column was
\* validated.
C16_Witness ==
    /\ Returned /\ NRows(arg) >= 2 /\ ~HasColumn(arg, Departure)
    /\ Len(AbsenceRecords(Departure)) = 1

\* C19: stats.missing_values has exactly the columns of the snapshot as
\* keys, declared or not, and maps each to the number of its null cells,
\* 0 for a column without nulls.
C19_MissingValuesAllColumns ==
    Returned =>
        /\ DOMAIN results.stats.missing_values = Range(arg.columns)
        /\ \A c \in Range(arg.columns) :
              results.stats.missing_values[c] =
                  Cardinality({i \in 1..NRows(arg) : arg.rows[i][c].k = "null"})

\* C19 witness: a snapshot with an undeclared column, a column with a null
\* and columns without one was summarised.
C19_Witness ==
    /\ Returned /\ HasColumn(arg, ExtraColumn)
    /\ results.stats.missing_values[ExtraColumn] = 0
    /\ results.stats.missing_values["Aircraft Type"] = 1

\* C20: stats.duplicate_rows counts the rows equal in all columns to an
\* earlier row, so k equal rows give k - 1; total_rows and total_columns
\* are the numbers of rows and columns of the snapshot.
C20_DuplicateRowsAndSizes ==
    Returned =>
        /\ results.stats.duplicate_rows =
              Cardinality({i \in 1..NRows(arg) : \E j \in 1..NRows(arg) :
                                                     j < i /\ arg.rows[j] = arg.rows[i]})
        /\ results.stats.duplicate_rows = NRows(arg) - Cardinality(Range(arg.rows))
        /\ results.stats.total_rows = NRows(arg)
        /\ results.stats.total_columns = Cardinality(Range(arg.columns))

\* C20 witness: three equal rows were summarised as two duplicates.
C20_Witness ==
    /\ Returned /\ NRows(arg) = 3 /\ Len(arg.columns) > 0
    /\ arg.rows[1] = arg.rows[2] /\ arg.rows[2] = arg.rows[3]
    /\ results.stats.duplicate_rows = 2

\* The part of a snapshot that the schema declares: the declared columns it
\* has, their dtypes and their cells.
DeclaredPart(d) ==
    LET declared == SelectSeq(d.columns, LAMBDA c : c \in Range(DeclaredColumns))
    IN  [columns |-> Range(declared),
         dtypes |-> [c \in Range(declared) |-> d.dtypes[c]],
         rows |-> [i \in 1..NRows(d) |-> Restrict(d.rows[i], declared)]]

\* An error record that names column c.
ErrorNames(e, c) == e.column = Some(c) \/ e.failure_case = Str(c)

\* C17: two snapshots that agree on every declared column and differ only
\* in undeclared columns get the same is_valid and the same errors from
\* validate, and no error names an undeclared column.
C17_UnknownColumnsIgnored ==
    Returned =>
        /\ \A c \in Range(arg.columns) \ Range(DeclaredColumns) :
              \A j \in 1..Len(results.errors) : ~ErrorNames(results.errors[j], c)
        /\ (prev.outcome = "returned" /\ DeclaredPart(prev.arg) = DeclaredPart(arg)) =>
              /\ results.is_valid = prev.results.is_valid
              /\ results.errors = prev.results.errors

\* C17 witness: a snapshot with schema errors was validated with its
\* undeclared column and again without it.
C17_Witness ==
    /\ Returned /\ prev.outcome = "returned"
    /\ HasColumn(prev.arg, ExtraColumn) /\ ~HasColumn(arg, ExtraColumn)
    /\ DeclaredPart(prev.arg) = DeclaredPart(arg)
    /\ results.errors # <<>>

----------------------------------------------------------------------------
\* Properties of the reports.

IsNaN(q) == q.den = 0

\* q == r as Python compares floats: NaN equals nothing.
SameNumber(q, r) == ~IsNaN(q) /\ ~IsNaN(r) /\ q.num * r.den = r.num * q.den

\* q <= r; false when either is NaN.
AtMost(q, r) == ~IsNaN(q) /\ ~IsNaN(r) /\ q.num * r.den <= r.num * q.den

\* The number of rows of d with a missing field.
RowsWithMissing(d) ==
    Cardinality({i \in 1..NRows(d) : \E c \in Range(d.columns) : d.rows[i][c].k = "null"})

\* The number of rows of d that repeat an earlier row.
RepeatedRows(d) == NRows(d) - Cardinality(Range(d.rows))

\* The whole number k as a score.
Whole(k) == Ratio(k, 1)

\* The completeness of d in percent, for a d with rows.
CompletenessOf(d) == Ratio(100 * (NRows(d) - RowsWithMissing(d)), NRows(d))

\* The uniqueness of d in percent, for a d with rows.
UniquenessOf(d) == Ratio(100 * (NRows(d) - RepeatedRows(d)), NRows(d))

\* The average of the completeness and the uniqueness of d.
AverageOf(d) ==
    Ratio(100 * ((2 * NRows(d)) - RowsWithMissing(d) - RepeatedRows(d)), 2 * NRows(d))

\* C12: for a dataset with rows, generate_data_summary computes
\* completeness = rows without missing field / rows * 100, uniqueness =
\* (1 - duplicate rows / rows) * 100 and overall = their average, and returns
\* overall as quality_score; 10 rows, one of them with a missing field, and
\* no duplicate give 90, 100 and 95.
C12_DataSummaryScores ==
    (summary.outcome = "returned" /\ NRows(summary.given) > 0) =>
        LET d == summary.given
            r == summary.result
        IN  /\ SameNumber(r.completeness, CompletenessOf(d))
            /\ SameNumber(r.uniqueness, UniquenessOf(d))
            /\ SameNumber(Times(r.quality_score, 2), Plus(r.completeness, r.uniqueness))
            /\ SameNumber(r.quality_score, AverageOf(d))
            /\ (NRows(d) = 10 /\ RowsWithMissing(d) = 1 /\ RepeatedRows(d) = 0) =>
                  /\ SameNumber(r.completeness, Whole(90))
                  /\ SameNumber(r.uniqueness, Whole(100))
                  /\ SameNumber(r.quality_score, Whole(95))

\* C12 witness: the summary of 10 rows with one incomplete row and no
\* duplicate returned 95.
C12_Witness ==
    /\ summary.outcome = "returned"
    /\ NRows(summary.given) = 10
    /\ RowsWithMissing(summary.given) = 1 /\ RepeatedRows(summary.given) = 0
    /\ SameNumber(summary.result.quality_score, Whole(95))

\* C13: for a dataset with rows, the quality_score of
\* generate_quality_summary is the average of completeness and uniqueness,
\* the overall score of generate_data_summary on the same data.
C13_QualityScoreIsAverage ==
    (quality.outcome = "returned" /\ NRows(quality.given) > 0) =>
        /\ SameNumber(quality.result.quality_score, AverageOf(quality.given))
        /\ ~DataSummaryRaises(quality.given) =>
              SameNumber(quality.result.quality_score, DataSummary(quality.given).quality_score)

\* 0 <= q <= 100
InPercentRange(q) == AtMost(Whole(0), q) /\ AtMost(q, Whole(100))

\* C14: for a dataset with rows, the quality_score of
\* generate_quality_summary and the overall score of generate_data_summary
\* are at least 0 and at most 100.
C14_ScoreInRange ==
    /\ (quality.outcome = "returned" /\ NRows(quality.given) > 0) =>
          InPercentRange(quality.result.quality_score)
    /\ (summary.outcome = "returned" /\ NRows(summary.given) > 0) =>
          InPercentRange(summary.result.quality_score)

\* C15: on a dataset without rows the quality scorers do not raise, and
\* completeness, uniqueness and the score are 100.
C15_EmptyDatasetScores100 ==
    /\ (summary.outcome # "none" /\ NRows(summary.given) = 0) =>
          /\ summary.outcome = "returned"
          /\ SameNumber(summary.result.completeness, Whole(100))
          /\ SameNumber(summary.result.uniqueness, Whole(100))
          /\ SameNumber(summary.result.quality_score, Whole(100))
    /\ (quality.outcome # "none" /\ NRows(quality.given) = 0) =>
          /\ quality.outcome = "returned"
          /\ SameNumber(quality.result.quality_score, Whole(100))

\* C18: validate and verify_fare_calculation leave the caller's dataframe
\* with the columns and the cells it had before the call; Calculated Total
\* and Fare Difference are columns of the copy only.
C18_CallerSnapshotUntouched ==
    /\ outcome # "none" => df = arg
    /\ verified.outcome = "returned" =>
          /\ df = verified.given
          /\ ~HasColumn(df, "Calculated Total") /\ ~HasColumn(df, "Fare Difference")
          /\ HasColumn(verified.result.df_temp, "Calculated Total")
          /\ HasColumn(verified.result.df_temp, "Fare Difference")

\* C18 witness: verify_fare_calculation found mismatches in a dataset and
\* returned a sample with the derived column.
C18_Witness ==
    /\ verified.outcome = "returned"
    /\ NRows(verified.given) >= 2
    /\ verified.result.mismatches > 0
    /\ "Fare Difference" \in Range(verified.result.returned.columns)
    /\ df = verified.given

----------------------------------------------------------------------------
\* Further properties of validate.

\* C21: stats has the key fare_stats, with mean, median, min, max and std,
\* exactly when the snapshot has the total-fare column; without the column
\* the key is not set.
C21_FareStatsIffFareColumn ==
    Returned =>
        /\ (results.stats.fare_stats # None) <=> HasColumn(arg, TotalFare)
        /\ results.stats.fare_stats # None =>
              DOMAIN results.stats.fare_stats[1] = {"mean", "median", "min", "max", "std"}

\* C21 witness: a snapshot with rows but without the total-fare column was
\* summarised without fare_stats.
C21_Witness ==
    /\ Returned /\ NRows(arg) >= 1 /\ ~HasColumn(arg, TotalFare)
    /\ HasColumn(arg, BaseFare)
    /\ results.stats.fare_stats = None

\* The records of the errors about column c that come from a check of the
\* column (range, length, membership or custom check).
CheckRecords(c) ==
    SelectSeq(results.errors, LAMBDA e : e.column = Some(c) /\ e.check_number # None)

\* The records of the errors about the dtype of column c.
DtypeRecords(c) ==
    SelectSeq(results.errors,
              LAMBDA e : e.column = Some(c) /\ e.check_number = None
                         /\ e.check # "not_nullable")

\* C24: a declared column whose dtype is not the declared one gives a
\* single type-error record, and no record of a range, length, membership
\* or custom check in the same result.
C24_DtypeMismatchShortCircuits ==
    Returned =>
        \A c \in {x \in Range(DeclaredColumns) :
                      HasColumn(arg, x) /\ arg.dtypes[x] # Schema[x].dtype} :
            /\ Len(DtypeRecords(c)) = 1
            /\ CheckRecords(c) = <<>>

\* The number of rows of d whose flight key repeats the key of an earlier
\* row.
RepeatedKeys(d) ==
    LET key(i) == [c \in Range(KeyColumns) |-> d.rows[i][c]]
    IN  Cardinality({i \in 1..NRows(d) : \E j \in 1..(i - 1) : key(j) = key(i)})

\* C25: for a snapshot with the four key columns, stats.duplicate_rows is
\* at most the key-duplicate count of the Duplicate Flights rule (and of
\* check_duplicates), so a positive stats.duplicate_rows comes with the
\* Duplicate Flights warning in the same result.
C25_RowDuplicatesAreKeyDuplicates ==
    (Returned /\ HasAll(arg, KeyColumns)) =>
        /\ results.stats.duplicate_rows <= RepeatedKeys(arg)
        /\ CheckDuplicates(arg).duplicate_rows <= CheckDuplicates(arg).duplicate_flights
        /\ CheckDuplicates(arg).duplicate_rows = results.stats.duplicate_rows
        /\ results.stats.duplicate_rows > 0 =>
              /\ Len(WarningsOf("Duplicate Flights")) = 1
              /\ WarningsOf("Duplicate Flights")[1].message =
                    ToString(RepeatedKeys(arg)) \o " potential duplicate flight records found"

\* C25 witness: a snapshot with one full-row duplicate and a second row
\* that repeats the key only was validated.
C25_Witness ==
    /\ Returned /\ HasAll(arg, KeyColumns)
    /\ results.stats.duplicate_rows = 1
    /\ RepeatedKeys(arg) = 2
    /\ Len(WarningsOf("Duplicate Flights")) = 1

----------------------------------------------------------------------------
\* The three fare-consistency checks.

\* The number of rows of d whose total differs from base + tax by more than
\* 1 BDT.
OffByMoreThanOne(d) ==
    Cardinality({i \in 1..NRows(d) :
                    /\ \A c \in Range(FareColumns) : d.rows[i][c].k = "num"
                    /\ \/ d.rows[i][TotalFare].n > d.rows[i][BaseFare].n + d.rows[i][TaxSurcharge].n + 1
                       \/ d.rows[i][TotalFare].n + 1 < d.rows[i][BaseFare].n + d.rows[i][TaxSurcharge].n})

\* The row count in the Total Fare Calculation warning of a list of
\* warnings is k; no warning counts as 0.
WarnsOfRows(warnings, k) ==
    LET found == SelectSeq(warnings, LAMBDA w : w.rule = "Total Fare Calculation")
    IN  IF k = 0 THEN found = <<>>
        ELSE /\ Len(found) = 1
             /\ found[1].message = ToString(k) \o " rows have Total Fare != Base Fare + Tax"

\* C26: on the same data with the three fare columns, the row count in the
\* validator's Total Fare Calculation warning (0 without warning), the
\* mismatch count of verify_fare_calculation at its default tolerance and
\* fare_mismatches of generate_data_summary are equal;
\* verify_fare_calculation returns the empty frame exactly when the count
\* is 0, else at most 5 rows, each with Fare Difference above the tolerance.
C26_FareChecksAgree ==
    /\ (Returned /\ HasAll(arg, FareColumns)) =>
          /\ WarnsOfRows(results.warnings, OffByMoreThanOne(arg))
          /\ WarnsOfRows(results.warnings,
                         VerifyFareCalculationResult(arg, DefaultTolerance).mismatches)
          /\ WarnsOfRows(results.warnings, DataSummary(arg).fare_mismatches)
    /\ summary.outcome = "returned" =>
          /\ summary.result.fare_mismatches = OffByMoreThanOne(summary.given)
          /\ WarnsOfRows(FareRule(summary.given), summary.result.fare_mismatches)
    /\ verified.outcome = "returned" =>
          LET k == verified.result.mismatches
              out == verified.result.returned
          IN  /\ k = OffByMoreThanOne(verified.given)
              /\ k = DataSummary(verified.given).fare_mismatches
              /\ WarnsOfRows(FareRule(verified.given), k)
              /\ (out.columns = <<>> /\ out.rows = <<>>) <=> k = 0
              /\ Len(out.rows) = IF k < 5 THEN k ELSE 5
              /\ \A j \in 1..Len(out.rows) :
                    /\ out.rows[j]["Fare Difference"].k = "num"
                    /\ out.rows[j]["Fare Difference"].n > DefaultTolerance

\* C26 witness: verify_fare_calculation found six mismatches in a dataset
\* that also has a row off by exactly 1 BDT, and returned five rows.
C26_Witness ==
    /\ verified.outcome = "returned"
    /\ verified.result.mismatches = 6
    /\ Len(verified.result.returned.rows) = 5
    /\ \E i \in 1..NRows(verified.given) :
          verified.given.rows[i][TotalFare].n =
              verified.given.rows[i][BaseFare].n + verified.given.rows[i][TaxSurcharge].n + 1
    /\ DataSummary(verified.given).fare_mismatches = 6

----------------------------------------------------------------------------
\* Properties of the file-level functions.  They speak of the latest call
\* and of the files as they are after it.

\* C22: download_from_kaggle raises and returns no path when credentials
\* are absent, and when the expected file is not in the target directory
\* after the download step; a path it returns is the expected file, and
\* the file exists.
C22_DownloaderFailsOrReturnsFile ==
    call.op = "download_from_kaggle" =>
        /\ ~kaggle.credentials => (call.outcome = "raised" /\ call.value = None)
        /\ ("download" \in Range(call.steps) /\ ~Exists(fs, TargetFile)) =>
              (call.outcome = "raised" /\ call.value = None)
        /\ call.outcome = "returned" =>
              /\ call.value = Some(TargetFile)
              /\ Exists(fs, TargetFile)
              /\ kaggle.credentials

\* C22 witness: with credentials, the download unpacked another file but
\* not the expected one, and the call raised.
C22_Witness ==
    /\ call.op = "download_from_kaggle"
    /\ kaggle.credentials
    /\ "download" \in Range(call.steps)
    /\ Exists(fs, OtherFile) /\ ~Exists(fs, TargetFile)
    /\ call.outcome = "raised" /\ call.error = Some("FileNotFoundError")

\* C23: on a path that does not exist load_flight_data raises a not-found
\* error before reading anything, and validate_raw_data raises before any
\* validation runs; neither tries again, neither returns a result.
C23_MissingFileIsFatal ==
    (call.op \in {"load_flight_data", "validate_raw_data"} /\ ~Exists(fs, call.path[1])) =>
        /\ call.outcome = "raised"
        /\ call.error = Some("FileNotFoundError")
        /\ call.value = None
        /\ Len(call.steps) = 1
        /\ call.op = "load_flight_data" => "read_csv" \notin Range(call.steps)
        /\ call.op = "validate_raw_data" => "validate" \notin Range(call.steps)

\* C23 witness: load_flight_data was called on a path that does not exist,
\* next to a file that does, and raised.
C23_Witness ==
    /\ call.op = "load_flight_data"
    /\ ~Exists(fs, call.path[1]) /\ fs # NoFiles
    /\ call.outcome = "raised"

====
